---- MODULE Spec2Model ----
(***************************************************************************)
(* A model of the changelog parser (package changelog).                    *)
(*                                                                         *)
(* Text is a sequence of one-character strings.  Offsets are Go's: 0-based,*)
(* the byte at offset o of s is s[o+1], and a half-open span [a, b) of s   *)
(* is Slice(s, a, b).                                                      *)
(***************************************************************************)
EXTENDS Integers, Sequences, FiniteSets, TLC

\* ------------------------------------------------------------------------
\* Bytes and byte classes
\* ------------------------------------------------------------------------

NoChar == ""

DigitSeq == <<"0", "1", "2", "3", "4", "5", "6", "7", "8", "9">>

Digit == {DigitSeq[i] : i \in 1..10}

Lower == {"a", "b", "c", "d", "e", "f", "g", "h", "i", "j", "k", "l", "m",
          "n", "o", "p", "q", "r", "s", "t", "u", "v", "w", "x", "y", "z"}

Upper == {"A", "B", "C", "D", "E", "F", "G", "H", "I", "J", "K", "L", "M",
          "N", "O", "P", "Q", "R", "S", "T", "U", "V", "W", "X", "Y", "Z"}

\* [a-zA-Z0-9]
AlNum == Lower \cup Upper \cup Digit

\* isWordChar(b), which is also the regexp class \w
isWordChar(b) == b \in AlNum \cup {"_"}

WordChar == AlNum \cup {"_"}

\* the regexp class \s
SpaceChar == {" ", "\t", "\n", "\f", "\r"}

\* the regexp class [\w.+-] of markdownHeader and underlineHeader
VersionChar == WordChar \cup {".", "+", "-"}

\* ------------------------------------------------------------------------
\* Strings
\* ------------------------------------------------------------------------

\* s[o], or NoChar outside the string
At(s, o) == IF o >= 0 /\ o < Len(s) THEN s[o + 1] ELSE NoChar

\* s[a:b]
Slice(s, a, b) == SubSeq(s, a + 1, b)

\* strings.HasPrefix(s, p)
HasPrefix(s, p) == Len(s) >= Len(p) /\ SubSeq(s, 1, Len(p)) = p

\* p occurs in s at offset o
OccursAt(s, p, o) == o >= 0 /\ o + Len(p) <= Len(s) /\ Slice(s, o, o + Len(p)) = p

\* strings.TrimPrefix(s, p)
TrimPrefix(s, p) == IF HasPrefix(s, p) THEN SubSeq(s, Len(p) + 1, Len(s)) ELSE s

\* the first offset >= o at which s holds a byte outside the class,
\* Len(s) if there is none: the end of a greedy run of the class
RECURSIVE RunEnd(_, _, _)
RunEnd(s, o, class) ==
    IF o < Len(s) /\ s[o + 1] \in class THEN RunEnd(s, o + 1, class) ELSE o

\* strings.TrimRight(s, cutset)
RECURSIVE TrimRight(_, _)
TrimRight(s, cutset) ==
    IF Len(s) > 0 /\ s[Len(s)] \in cutset
    THEN TrimRight(SubSeq(s, 1, Len(s) - 1), cutset)
    ELSE s

\* strings.TrimLeft(s, cutset)
RECURSIVE TrimLeft(_, _)
TrimLeft(s, cutset) ==
    IF Len(s) > 0 /\ s[1] \in cutset
    THEN TrimLeft(SubSeq(s, 2, Len(s)), cutset)
    ELSE s

\* the white space of unicode.IsSpace that a document of the model can hold
UnicodeSpace == {" ", "\t", "\n", "\f", "\r"}

\* strings.TrimSpace(s)
TrimSpace(s) == TrimRight(TrimLeft(s, UnicodeSpace), UnicodeSpace)

\* the offsets of the "\n" bytes of s, ascending
RECURSIVE NewlinesFrom(_, _)
NewlinesFrom(s, o) ==
    IF o >= Len(s) THEN <<>>
    ELSE IF s[o + 1] = "\n" THEN <<o>> \o NewlinesFrom(s, o + 1)
    ELSE NewlinesFrom(s, o + 1)

\* strings.Split(s, "\n"): always at least one line
Split(s) ==
    LET nl == NewlinesFrom(s, 0)
        n  == Len(nl)
    IN [i \in 1..(n + 1) |->
          Slice(s, IF i = 1 THEN 0 ELSE nl[i - 1] + 1,
                   IF i = n + 1 THEN Len(s) ELSE nl[i])]

\* strings.Join(lines, "\n")
RECURSIVE Join(_)
Join(lines) ==
    IF Len(lines) = 0 THEN <<>>
    ELSE IF Len(lines) = 1 THEN lines[1]
    ELSE lines[1] \o <<"\n">> \o Join(Tail(lines))

\* the concatenation of a sequence of strings
RECURSIVE Concat(_)
Concat(parts) ==
    IF Len(parts) = 0 THEN <<>> ELSE parts[1] \o Concat(Tail(parts))

\* ------------------------------------------------------------------------
\* Dates: time.Parse("2006-01-02", s)
\* ------------------------------------------------------------------------

NoDate == <<>>

DigitVal(c) == CHOOSE i \in 0..9 : DigitSeq[i + 1] = c

\* \d{4}-\d{2}-\d{2} at offset o of s
IsDateShape(s, o) ==
    /\ o + 10 <= Len(s)
    /\ \A k \in {0, 1, 2, 3, 5, 6, 8, 9} : s[o + k + 1] \in Digit
    /\ s[o + 5] = "-"
    /\ s[o + 8] = "-"

IsLeap(y) == (y % 4 = 0 /\ y % 100 # 0) \/ y % 400 = 0

DaysIn(y, m) ==
    IF m = 2 THEN (IF IsLeap(y) THEN 29 ELSE 28)
    ELSE IF m \in {4, 6, 9, 11} THEN 30 ELSE 31

\* time.Parse of a string of the date shape: the date, or NoDate on error
ParseDate(d) ==
    LET y   == 1000 * DigitVal(d[1]) + 100 * DigitVal(d[2])
               + 10 * DigitVal(d[3]) + DigitVal(d[4])
        m   == 10 * DigitVal(d[6]) + DigitVal(d[7])
        day == 10 * DigitVal(d[9]) + DigitVal(d[10])
    IN IF m >= 1 /\ m <= 12 /\ day >= 1 /\ day <= DaysIn(y, m)
       THEN d ELSE NoDate

\* ------------------------------------------------------------------------
\* The header patterns.  A match is the index slice that
\* FindAllStringSubmatchIndex gives: <<start, end, g1start, g1end, ...>>,
\* Go's match[k] being m[k+1]; a group that did not take part is -1, -1.
\* ------------------------------------------------------------------------

NoMatch == <<>>

\* (?m)^ : the offset is the start of the text or follows a line feed
LineStart(s, o) == o = 0 \/ At(s, o - 1) = "\n"

\* the first offset >= o at which s holds the byte c, Len(s) if none
RECURSIVE IndexFrom(_, _, _)
IndexFrom(s, o, c) ==
    IF o < Len(s) /\ s[o + 1] # c THEN IndexFrom(s, o + 1, c) ELSE o

\* the offset after the last [a-zA-Z0-9] byte of s[p:r], p if there is none
RECURSIVE LastAlNumEnd(_, _, _)
LastAlNumEnd(s, p, r) ==
    IF r <= p THEN p
    ELSE IF s[r] \in AlNum THEN r
    ELSE LastAlNumEnd(s, p, r - 1)

\* VersionEnd asking for one byte after the "." instead of two
VersionEndShort(s, p) ==
    LET r == RunEnd(s, p, VersionChar)
        e == LastAlNumEnd(s, p, r)
    IN IF \E d \in (p + 1)..(e - 2) : s[d + 1] = "." THEN e ELSE -1

\* ([\w.+-]+\.[\w.+-]+[a-zA-Z0-9]) at offset p: the end of the group, -1
\* if it does not match.  Both + are greedy and all three parts lie in one
\* run of [\w.+-], so the group ends after the last alphanumeric byte of
\* the run, and it matches when a "." lies after at least one byte of the
\* run and at least two bytes before that end.
VersionEnd(s, p) ==
    LET r == RunEnd(s, p, VersionChar)
        e == LastAlNumEnd(s, p, r)
    IN IF \E d \in (p + 1)..(e - 3) : s[d + 1] = "." THEN e ELSE -1

\* (?m)^##\s+\[([^\]]+)\](?:\s+-\s+(\d{4}-\d{2}-\d{2}))?  at offset o
keepAChangelog(s, o) ==
    LET a == RunEnd(s, o + 2, SpaceChar)
        b == IndexFrom(s, a + 1, "]")
        c == RunEnd(s, b + 1, SpaceChar)
        d == RunEnd(s, c + 1, SpaceChar)
    IN IF /\ At(s, o) = "#" /\ At(s, o + 1) = "#"
          /\ a > o + 2 /\ At(s, a) = "["
          /\ b > a + 1 /\ At(s, b) = "]"
       THEN IF c > b + 1 /\ At(s, c) = "-" /\ d > c + 1 /\ IsDateShape(s, d)
            THEN <<o, d + 10, a + 1, b, d, d + 10>>
            ELSE <<o, b + 1, a + 1, b, -1, -1>>
       ELSE NoMatch

\* (?m)^#{1,3}\s+v?([\w.+-]+\.[\w.+-]+[a-zA-Z0-9])(?:\s+\((\d{4}-\d{2}-\d{2})\))?
\* at offset o.  v? is greedy: the "v" is left out of the group when the
\* group matches after it, and is part of the group otherwise.
markdownHeader(s, o) ==
    LET h == RunEnd(s, o, {"#"})
        a == RunEnd(s, h, SpaceChar)
        g == IF At(s, a) = "v" /\ VersionEnd(s, a + 1) # -1 THEN a + 1 ELSE a
        e == VersionEnd(s, g)
        c == RunEnd(s, e, SpaceChar)
    IN IF h - o >= 1 /\ h - o <= 3 /\ a > h /\ e # -1
       THEN IF /\ c > e /\ At(s, c) = "(" /\ IsDateShape(s, c + 1)
               /\ At(s, c + 11) = ")"
            THEN <<o, c + 12, g, e, c + 1, c + 11>>
            ELSE <<o, e, g, e, -1, -1>>
       ELSE NoMatch

\* (?m)^([\w.+-]+\.[\w.+-]+[a-zA-Z0-9])\n[=-]+  at offset o.  The group has
\* to end at the line feed, so the run of [\w.+-] ends in an alphanumeric.
underlineHeader(s, o) ==
    LET r == RunEnd(s, o, VersionChar)
        u == RunEnd(s, r + 1, {"=", "-"})
    IN IF VersionEnd(s, o) = r /\ At(s, r) = "\n" /\ u > r + 1
       THEN <<o, u, o, r>>
       ELSE NoMatch

\* A caller's pattern for ParseWithPattern, ^## v([\d.]+), which has one
\* group and no (?m); ParseWithPattern compiles it again with (?m) in front
customPattern(s, o) ==
    LET r == RunEnd(s, o + 4, Digit \cup {"."})
    IN IF HasPrefix(Slice(s, o, Len(s)), <<"#", "#", " ", "v">>) /\ r > o + 4
       THEN <<o, r, o + 4, r>>
       ELSE NoMatch

Builtin == {"keepAChangelog", "markdownHeader", "underlineHeader"}

Pattern == Builtin \cup {"customPattern"}

\* the match of pattern pat that starts at offset o of s, or NoMatch
MatchAt(pat, s, o) ==
    IF ~LineStart(s, o) THEN NoMatch
    ELSE CASE pat = "keepAChangelog"  -> keepAChangelog(s, o)
           [] pat = "markdownHeader"  -> markdownHeader(s, o)
           [] pat = "underlineHeader" -> underlineHeader(s, o)
           [] pat = "customPattern"   -> customPattern(s, o)

\* the successive non-overlapping matches of pat in s from offset o on: the
\* leftmost match at or after o, then the matches from its end on.  Every
\* pattern is anchored by (?m)^, so a search that fails at o goes on at the
\* start of the next line.
RECURSIVE FindAllFrom(_, _, _)
FindAllFrom(pat, s, o) ==
    IF o >= Len(s) THEN <<>>
    ELSE LET m == MatchAt(pat, s, o)
         IN IF m # NoMatch
            THEN <<m>> \o FindAllFrom(pat, s, m[2])
            ELSE FindAllFrom(pat, s, IndexFrom(s, o, "\n") + 1)

\* pattern.FindAllStringSubmatchIndex(content, -1)
FindAllStringSubmatchIndex(pat, s) == FindAllFrom(pat, s, 0)

\* pattern.MatchString(content)
MatchString(pat, s) == \E o \in 0..(Len(s) - 1) : MatchAt(pat, s, o) # NoMatch

\* ------------------------------------------------------------------------
\* Segmentation
\* ------------------------------------------------------------------------

\* Parser.matchGroup, set to 1 by every constructor
matchGroup == 1

\* A versionEntry {version, entry: Entry{Date, Content}}
VersionEntry(v, d, c) == [version |-> v, date |-> d, content |-> c]

\* Parser.extractGroup(match, group)
extractGroup(s, match, group) ==
    LET start == match[group * 2 + 1]
        end   == match[group * 2 + 2]
    IN IF start < 0 THEN <<>> ELSE Slice(s, start, end)

\* extractDate handing the captured digits on without time.Parse
extractDateUnchecked(s, match) ==
    LET group == matchGroup + 1
    IN IF group * 2 + 1 >= Len(match) THEN NoDate
       ELSE LET start == match[group * 2 + 1]
                end   == match[group * 2 + 2]
            IN IF start < 0 THEN NoDate
               ELSE Slice(s, start, end)

\* Parser.extractDate(match)
extractDate(s, match) ==
    LET group == matchGroup + 1
    IN IF group * 2 + 1 >= Len(match) THEN NoDate
       ELSE LET start == match[group * 2 + 1]
                end   == match[group * 2 + 2]
            IN IF start < 0 THEN NoDate
               ELSE ParseDate(Slice(s, start, end))

\* EntryOfMatch with the content running to the end of the document for
\* every match, the next header never looked at
EntryOfMatchToEnd(s, matches, i) ==
    LET match == matches[i]
    IN VersionEntry(extractGroup(s, match, matchGroup),
                    extractDate(s, match),
                    TrimSpace(Slice(s, match[2], Len(s))))

\* the versionEntry that the loop body of doParse builds for matches[i]
EntryOfMatch(s, matches, i) ==
    LET match      == matches[i]
        headerEnd  == match[2]
        contentEnd == IF i + 1 <= Len(matches) THEN matches[i + 1][1]
                      ELSE Len(s)
    IN VersionEntry(extractGroup(s, match, matchGroup),
                    extractDate(s, match),
                    TrimSpace(Slice(s, headerEnd, contentEnd)))

\* the entries of es whose version no earlier entry of es has
RECURSIVE FirstOfEachVersion(_)
FirstOfEachVersion(es) ==
    IF es = <<>> THEN <<>>
    ELSE LET init == FirstOfEachVersion(SubSeq(es, 1, Len(es) - 1))
             last == es[Len(es)]
         IN IF \E k \in 1..Len(init) : init[k].version = last.version
            THEN init ELSE Append(init, last)

\* doParse keeping one entry per version token, as a keyed store would
doParseKeyed(s, pat, ents) ==
    IF s = <<>> THEN ents
    ELSE LET matches == FindAllStringSubmatchIndex(pat, s)
         IN FirstOfEachVersion(
                ents \o [i \in 1..Len(matches) |-> EntryOfMatch(s, matches, i)])

\* Parser.doParse(): p.entries after the call, given p.entries before it
doParse(s, pat, ents) ==
    IF s = <<>> THEN ents
    ELSE LET matches == FindAllStringSubmatchIndex(pat, s)
         IN ents \o [i \in 1..Len(matches) |-> EntryOfMatch(s, matches, i)]

\* detectFormat choosing the shape with the most headers, the earlier shape
\* on a tie
detectFormatMost(s) ==
    LET n(pat) == Len(FindAllStringSubmatchIndex(pat, s))
    IN IF n("keepAChangelog") > 0
          /\ n("keepAChangelog") >= n("underlineHeader")
          /\ n("keepAChangelog") >= n("markdownHeader")
       THEN "keepAChangelog"
       ELSE IF n("underlineHeader") > 0
               /\ n("underlineHeader") >= n("markdownHeader")
       THEN "underlineHeader"
       ELSE "markdownHeader"

\* Parser.detectFormat()
detectFormat(s) ==
    IF MatchString("keepAChangelog", s) THEN "keepAChangelog"
    ELSE IF MatchString("underlineHeader", s) THEN "underlineHeader"
    ELSE "markdownHeader"

\* ensureParsed without the test of p.parsed
ensureParsedAlways(s, pat, ents, done) == <<doParse(s, pat, ents), TRUE, 1>>

\* Parser.ensureParsed(): <<p.entries, p.parsed, calls of doParse>> after it
ensureParsed(s, pat, ents, done) ==
    IF done THEN <<ents, done, 0>>
    ELSE <<doParse(s, pat, ents), TRUE, 1>>

\* the result of Parser.Versions() once the entries are parsed
VersionsOf(ents) == [i \in 1..Len(ents) |-> ents[i].version]

NotFound == [found |-> FALSE, date |-> NoDate, content |-> <<>>]

Found(ve) == [found |-> TRUE, date |-> ve.date, content |-> ve.content]

\* the loop of Parser.Entry(version) from entry i on
RECURSIVE EntryFrom(_, _, _)
EntryFrom(ents, version, i) ==
    IF i > Len(ents) THEN NotFound
    ELSE IF ents[i].version = version THEN Found(ents[i])
    ELSE EntryFrom(ents, version, i + 1)

\* Entry(version) looking the version up the way Entries() stores it: the
\* last entry of that version
EntryOfLast(ents, version) ==
    LET hits == {i \in 1..Len(ents) : ents[i].version = version}
    IN IF hits = {} THEN NotFound
       ELSE Found(ents[CHOOSE i \in hits : \A j \in hits : j <= i])

\* the result of Parser.Entry(version) once the entries are parsed
EntryOf(ents, version) == EntryFrom(ents, version, 1)

\* the loop of Parser.Entries(): the map after entries 1..i were stored
RECURSIVE EntriesUpTo(_, _)
EntriesUpTo(ents, i) ==
    IF i = 0 THEN <<>>
    ELSE LET m == EntriesUpTo(ents, i - 1)
             k == ents[i].version
         IN [x \in (DOMAIN m) \cup {k} |->
               IF x = k THEN Found(ents[i]) ELSE m[x]]

\* the result of Parser.Entries() once the entries are parsed
EntriesOf(ents) == EntriesUpTo(ents, Len(ents))

\* ------------------------------------------------------------------------
\* The version locator and the range extractor
\* ------------------------------------------------------------------------

LowerSeq == <<"a", "b", "c", "d", "e", "f", "g", "h", "i", "j", "k", "l", "m",
              "n", "o", "p", "q", "r", "s", "t", "u", "v", "w", "x", "y", "z">>

UpperSeq == <<"A", "B", "C", "D", "E", "F", "G", "H", "I", "J", "K", "L", "M",
              "N", "O", "P", "Q", "R", "S", "T", "U", "V", "W", "X", "Y", "Z">>

\* the case folding of the (?i) flag on one byte
Fold(c) ==
    IF c \in Upper THEN LowerSeq[CHOOSE i \in 1..26 : UpperSeq[i] = c] ELSE c

\* p occurs in s at offset o, letter case ignored
OccursAtFold(s, p, o) ==
    /\ o >= 0
    /\ o + Len(p) <= Len(s)
    /\ \A k \in 1..Len(p) : Fold(s[o + k]) = Fold(p[k])

\* versionRe.FindAllStringIndex(line, -1) for the quoted literal v: the
\* start offsets of the successive matches from offset o on.  A search
\* resumes at the end of the match before it; the empty literal matches
\* at every offset.
RECURSIVE FindAllStringIndex(_, _, _)
FindAllStringIndex(line, v, o) ==
    IF o + Len(v) > Len(line) THEN <<>>
    ELSE IF OccursAt(line, v, o)
         THEN <<o>> \o FindAllStringIndex(line, v,
                          IF Len(v) = 0 THEN o + 1 ELSE o + Len(v))
         ELSE FindAllStringIndex(line, v, o + 1)

\* the checks of containsVersion on the match [lo, hi) of the line
BoundaryOK(line, lo, hi) ==
    /\ lo > 0 =>
         LET prev == line[lo]
         IN prev # "." /\ ~(isWordChar(prev) /\ prev # "v" /\ prev # "V")
    /\ hi < Len(line) =>
         LET next == line[hi + 1]
         IN ~(next = "." \/ next = "-" \/ isWordChar(next))

\* containsVersion(line, versionRe), versionRe being the quoted literal v
containsVersion(line, v) ==
    LET locs == FindAllStringIndex(line, v, 0)
    IN \E k \in 1..Len(locs) : BoundaryOK(line, locs[k], locs[k] + Len(v))

\* rangeRe.MatchString(line): escaped + `\.\.`
rangeRe(line, v) ==
    \E o \in 0..Len(line) : OccursAt(line, v \o <<".", ".">>, o)

\* versionLineRe.MatchString(line): `^v?` + escaped + `:?\s`
versionLineRe(line, v) ==
    \E o \in {0, 1} :
        /\ o = 1 => At(line, 0) = "v"
        /\ OccursAt(line, v, o)
        /\ LET k == o + Len(v)
           IN \/ At(line, k) \in SpaceChar
              \/ At(line, k) = ":" /\ At(line, k + 1) \in SpaceChar

\* bracketRe.MatchString(line): `^\[` + escaped + `\]`
bracketRe(line, v) == HasPrefix(line, <<"[">> \o v \o <<"]">>)

\* bulletRe.MatchString(line): `(?i)^[+*\-]\s+(version\s+)?` + escaped
bulletRe(line, v) ==
    /\ At(line, 0) \in {"+", "*", "-"}
    /\ \E k \in 2..RunEnd(line, 1, SpaceChar) :
          \/ OccursAtFold(line, v, k)
          \/ /\ OccursAtFold(line, <<"v", "e", "r", "s", "i", "o", "n">>, k)
             /\ \E j \in (k + 8)..RunEnd(line, k + 7, SpaceChar) :
                   OccursAtFold(line, v, j)

\* dateLineRe.MatchString(line): `^\d{4}-\d{2}-\d{2}`
dateLineRe(line) == IsDateShape(line, 0)

\* underlineRe.MatchString(line): `^[=\-+]{3,}\s*$`
underlineRe(line) ==
    LET u == RunEnd(line, 0, {"=", "-", "+"})
    IN u >= 3 /\ RunEnd(line, u, SpaceChar) = Len(line)

\* the tests of the loop body of LineForVersion that make it return i
\* (lines is 1-based here: Go's lines[i] is lines[i + 1])
LooksLikeHeader(lines, i, v) ==
    LET line == lines[i + 1]
    IN \/ HasPrefix(line, <<"#">>) \/ HasPrefix(line, <<"!">>)
          \/ HasPrefix(line, <<"=", "=">>)
       \/ versionLineRe(line, v)
       \/ bracketRe(line, v)
       \/ bulletRe(line, v)
       \/ dateLineRe(line)
       \/ i + 1 < Len(lines) /\ underlineRe(lines[i + 2])

\* LineScan giving up at the first range reference instead of going on
RECURSIVE LineScanStopAtRange(_, _, _)
LineScanStopAtRange(lines, v, i) ==
    IF i >= Len(lines) THEN -1
    ELSE IF ~containsVersion(lines[i + 1], v)
         THEN LineScanStopAtRange(lines, v, i + 1)
    ELSE IF rangeRe(lines[i + 1], v) THEN -1
    ELSE IF LooksLikeHeader(lines, i, v) THEN i
    ELSE LineScanStopAtRange(lines, v, i + 1)

\* the loop of LineForVersion from line i on
RECURSIVE LineScan(_, _, _)
LineScan(lines, v, i) ==
    IF i >= Len(lines) THEN -1
    ELSE IF ~containsVersion(lines[i + 1], v) THEN LineScan(lines, v, i + 1)
    ELSE IF rangeRe(lines[i + 1], v) THEN LineScan(lines, v, i + 1)
    ELSE IF LooksLikeHeader(lines, i, v) THEN i
    ELSE LineScan(lines, v, i + 1)

\* the two strings.TrimPrefix calls of LineForVersion
StripPrefix(version) == TrimPrefix(TrimPrefix(version, <<"v">>), <<"V">>)

\* Parser.LineForVersion(version)
LineForVersion(s, version) ==
    IF version = <<>> THEN -1
    ELSE LineScan(Split(s), StripPrefix(version), 0)

NoSlice == [found |-> FALSE, text |-> <<>>]

\* Between with the two branches of the both-found case exchanged
BetweenSwapped(s, oldVersion, newVersion) ==
    LET oldLine == LineForVersion(s, oldVersion)
        newLine == LineForVersion(s, newVersion)
        lines   == Split(s)
        cut(start, end) ==
            [found |-> TRUE,
             text  |-> TrimRight(Join(SubSeq(lines, start + 1, end)),
                                 {" ", "\t", "\n"})]
    IN IF oldLine >= 0 /\ newLine >= 0
       THEN IF oldLine > newLine THEN cut(oldLine, Len(lines))
            ELSE cut(newLine, oldLine)
       ELSE IF oldLine >= 0
            THEN IF oldLine = 0 THEN NoSlice ELSE cut(0, oldLine)
       ELSE IF newLine >= 0 THEN cut(newLine, Len(lines))
       ELSE NoSlice

\* Parser.Between(oldVersion, newVersion)
Between(s, oldVersion, newVersion) ==
    LET oldLine == LineForVersion(s, oldVersion)
        newLine == LineForVersion(s, newVersion)
        lines   == Split(s)
        cut(start, end) ==
            [found |-> TRUE,
             text  |-> TrimRight(Join(SubSeq(lines, start + 1, end)),
                                 {" ", "\t", "\n"})]
    IN IF oldLine >= 0 /\ newLine >= 0
       THEN IF oldLine < newLine THEN cut(oldLine, Len(lines))
            ELSE cut(newLine, oldLine)
       ELSE IF oldLine >= 0
            THEN IF oldLine = 0 THEN NoSlice ELSE cut(0, oldLine)
       ELSE IF newLine >= 0 THEN cut(newLine, Len(lines))
       ELSE NoSlice

\* ------------------------------------------------------------------------
\* Documents and tokens
\* ------------------------------------------------------------------------

\* ------------------------------------------------------------------------
\* The raw content URL
\* ------------------------------------------------------------------------

\* strings.TrimSuffix(s, suffix)
TrimSuffix(s, suffix) ==
    IF Len(s) >= Len(suffix)
       /\ SubSeq(s, Len(s) - Len(suffix) + 1, Len(s)) = suffix
    THEN SubSeq(s, 1, Len(s) - Len(suffix)) ELSE s

Https == <<"h", "t", "t", "p", "s", ":", "/", "/">>

\* url.Parse of "https://" host path, or of a path without scheme and
\* host, neither with a query or a fragment: the Host and the Path
UrlParse(u) ==
    IF HasPrefix(u, Https)
    THEN LET h == IndexFrom(u, Len(Https), "/")
         IN [Host |-> Slice(u, Len(Https), h), Path |-> Slice(u, h, Len(u))]
    ELSE [Host |-> <<>>, Path |-> u]

\* strings.SplitN(s, "/", 3)
SplitN3(s) ==
    LET a == IndexFrom(s, 0, "/")
        b == IndexFrom(s, a + 1, "/")
    IN IF a = Len(s) THEN <<s>>
       ELSE IF b >= Len(s) THEN <<Slice(s, 0, a), Slice(s, a + 1, Len(s))>>
       ELSE <<Slice(s, 0, a), Slice(s, a + 1, b), Slice(s, b + 1, Len(s))>>

\* the errors of RawContentURL, by their message
NoError == "nil"

ErrOwnerRepo == "cannot parse owner/repo"

ErrHost == "unsupported host"

GitHubRaw == <<"h", "t", "t", "p", "s", ":", "/", "/", "r", "a", "w", ".", "g", "i", "t", "h", "u", "b", "u", "s", "e", "r", "c", "o", "n", "t", "e", "n", "t", ".", "c", "o", "m", "/">>

GitLab == <<"h", "t", "t", "p", "s", ":", "/", "/", "g", "i", "t", "l", "a", "b", ".", "c", "o", "m", "/">>

\* RawContentURL(repoURL, filename): the URL and the error
RawContentURL(repoURL, filename) ==
    LET u      == TrimSuffix(TrimSuffix(repoURL, <<".", "g", "i", "t">>), <<"/">>)
        parsed == UrlParse(u)
        parts  == SplitN3(TrimPrefix(parsed.Path, <<"/">>))
    IN IF Len(parts) < 2 THEN [url |-> <<>>, err |-> ErrOwnerRepo]
       ELSE IF parsed.Host = <<"g", "i", "t", "h", "u", "b", ".", "c", "o", "m">>
       THEN [url |-> GitHubRaw \o parts[1] \o <<"/">> \o parts[2]
                     \o <<"/", "H", "E", "A", "D", "/">> \o filename,
             err |-> NoError]
       ELSE IF parsed.Host = <<"g", "i", "t", "l", "a", "b", ".", "c", "o", "m">>
       THEN [url |-> GitLab \o parts[1] \o <<"/">> \o parts[2]
                     \o <<"/", "-", "/", "r", "a", "w", "/", "H", "E", "A", "D", "/">> \o filename,
             err |-> NoError]
       ELSE [url |-> <<>>, err |-> ErrHost]

\* ------------------------------------------------------------------------
\* Finding the changelog of a directory.  A directory is what os.ReadDir
\* and os.Stat give for it: whether it can be read, and its entries sorted
\* by name, each with its name, whether it is a directory, and its size or
\* StatFails.
\* ------------------------------------------------------------------------

\* changelogFilenames
changelogFilenames ==
    << <<"c", "h", "a", "n", "g", "e", "l", "o", "g">>,
       <<"n", "e", "w", "s">>,
       <<"c", "h", "a", "n", "g", "e", "s">>,
       <<"h", "i", "s", "t", "o", "r", "y">>,
       <<"r", "e", "l", "e", "a", "s", "e">>,
       <<"w", "h", "a", "t", "s", "n", "e", "w">>,
       <<"r", "e", "l", "e", "a", "s", "e", "s">> >>

\* changelogExtensions
changelogExtensions ==
    { <<".", "m", "d">>,
      <<".", "t", "x", "t">>,
      <<".", "r", "s", "t">>,
      <<".", "r", "d", "o", "c">>,
      <<".", "m", "a", "r", "k", "d", "o", "w", "n">>,
      <<>> }

\* strings.ToLower
ToLower(s) == [k \in 1..Len(s) |-> Fold(s[k])]

\* strings.HasSuffix
HasSuffix(s, suffix) == TrimSuffix(s, suffix) # s \/ suffix = <<>>

\* filepath.Ext of a file name: from its last "." on, empty without one
Ext(s) ==
    LET dots == {k \in 1..Len(s) : s[k] = "."}
    IN IF dots = {} THEN <<>>
       ELSE SubSeq(s, CHOOSE k \in dots : \A j \in dots : j <= k, Len(s))

\* filepath.Join(directory, name)
PathJoin(directory, name) == directory \o <<"/">> \o name

\* os.Stat of the entry failed
StatFails == -1

\* the sizes at the two ends of the range that FindChangelog accepts
MinSize == 100

MaxSize == 1000000

\* the test that the inner loop of FindChangelog makes of the file f for
\* the stem name
IsCandidate(f, name) ==
    LET lower == ToLower(f)
        ext   == Ext(lower)
        base  == IF ext # <<>> THEN SubSeq(lower, 1, Len(lower) - Len(ext))
                 ELSE lower
    IN /\ ~HasSuffix(lower, <<".", "s", "h">>)
       /\ base = name
       /\ ext \in changelogExtensions

\* the loop over the candidates of one stem, from candidate i on: the path
\* of the first one whose size os.Stat gives and is in the range, else empty
RECURSIVE FirstInRange(_, _, _)
FirstInRange(dir, candidates, i) ==
    IF i > Len(candidates) THEN <<>>
    ELSE LET size == (CHOOSE e \in {dir.entries[k] : k \in 1..Len(dir.entries)} :
                         e.name = candidates[i]).size
         IN IF size = StatFails \/ size > MaxSize \/ size < MinSize
            THEN FirstInRange(dir, candidates, i + 1)
            ELSE PathJoin(dir.name, candidates[i])

\* the loop of FindChangelog over the stems, from stem n on
RECURSIVE FindFrom(_, _, _)
FindFrom(dir, files, n) ==
    IF n > Len(changelogFilenames) THEN <<>>
    ELSE LET Test(f)    == IsCandidate(f, changelogFilenames[n])
             candidates == SelectSeq(files, Test)
             path       == FirstInRange(dir, candidates, 1)
         IN IF Len(candidates) = 1 THEN PathJoin(dir.name, candidates[1])
            ELSE IF path # <<>> THEN path
            ELSE FindFrom(dir, files, n + 1)

\* FindChangelog(directory): the path and the error
FindChangelog(dir) ==
    IF ~dir.readable THEN [path |-> <<>>, err |-> "ReadDir"]
    ELSE LET NotDir(e) == ~e.isDir
             plain     == SelectSeq(dir.entries, NotDir)
             files     == [k \in 1..Len(plain) |-> plain[k].name]
         IN [path |-> FindFrom(dir, files, 1), err |-> NoError]

MaxBlocks == 3

MaxMemoBlocks == 2

MaxLocLines == 3

MaxRangeBlocks == 3

\* all sequences of at most n members of S
SeqsUpTo(S, n) == UNION {[1..k -> S] : k \in 0..n}

\* the blocks of text that the documents to segment are made of
SegBlocks ==
    { <<"#", "#", " ", "[", "1", ".", "0", "]">>,
      <<"#", "#", " ", "[", "2", ".", "0", "]", " ", "-", " ", "2", "0", "2", "4", "-", "0", "1", "-", "1", "5">>,
      <<"#", "#", " ", "v", "1", ".", "0", ".", "0">>,
      <<"1", ".", "0", ".", "0", "\n", "=", "=", "=">>,
      <<"B", "o", "d", "y">>,
      <<>> }

\* the documents to segment
SegDocs == {Join(b) : b \in SeqsUpTo(SegBlocks, MaxBlocks)}

\* the blocks of the documents whose accessors are called again and again
MemoBlocks ==
    { <<"#", "#", " ", "[", "1", ".", "0", "]">>,
      <<"#", "#", " ", "[", "1", ".", "0", "]", " ", "-", " ", "2", "0", "2", "4", "-", "0", "1", "-", "1", "5">>,
      <<"#", "#", " ", "v", "2", ".", "0", ".", "0">>,
      <<"B", "o", "d", "y">> }

MemoDocs == {Join(b) : b \in SeqsUpTo(MemoBlocks, MaxMemoBlocks)}

\* the tokens that callers pass to Entry
EntryTokens ==
    { <<"1", ".", "0">>,
      <<"2", ".", "0", ".", "0">>,
      <<"9", ".", "9">> }

\* the tokens that callers of a Parser pass to LineForVersion
LineTokens ==
    { <<"1", ".", "0">>,
      <<"v", "2", ".", "0", ".", "0">> }

\* the lines of the documents in which versions are located
LocLines ==
    { <<"#", "#", " ", "[", "1", ".", "1", "0", "]">>,
      <<"#", "#", " ", "[", "1", ".", "1", "]">>,
      <<"#", " ", "1", ".", "1", ".", ".", "2">>,
      <<"V", "1", ".", "1", " ", "x">>,
      <<"1", ".", "1">>,
      <<"=", "=", "=">>,
      <<"#", " ", "1", "-", "1", "-", "1">>,
      <<"s", "e", "e", " ", "1", ".", "1">> }

\* the documents in which versions are located
LocDocs == {Join(b) : b \in SeqsUpTo(LocLines, MaxLocLines)}

\* the tokens to locate
LocTokens ==
    { <<>>,
      <<"v">>,
      <<"1", ".", "1">>,
      <<"V", "1", ".", "1">>,
      <<"1", ".", "1", "0">>,
      <<"1", "-", "1">>,
      <<"v", "V", "1", ".", "1">> }

Header3 == <<"#", "#", " ", "[", "3", ".", "0", "]">>

Body3 == <<"c", "3">>

Header2 == <<"#", "#", " ", "[", "2", ".", "0", "]">>

Body2 == <<"c", "2">>

Header1 == <<"#", "#", " ", "[", "1", ".", "0", "]">>

Body1 == <<"c", "1">>

\* the blocks of the documents that ranges are cut from: three releases,
\* a blank line and a line of text that ends in white space
RangeBlocks ==
    { Join(<<Header3, Body3>>), Join(<<Header2, Body2>>),
      Join(<<Header1, Body1>>), <<>>, <<"i", "n", "t", "r", "o", " ", "\t">> }

\* the documents that ranges are cut from
RangeDocs == {Join(b) : b \in SeqsUpTo(RangeBlocks, MaxRangeBlocks)}

\* the tokens that bound a range
RangeTokens ==
    { <<>>,
      <<"1", ".", "0">>,
      <<"2", ".", "0">>,
      <<"v", "3", ".", "0">>,
      <<"9", ".", "9">> }

\* the (old, new) pairs that callers of a Parser pass to Between
\* the documents with dated headers: up to MaxDateBlocks blocks
MaxDateBlocks == 2

DateBlocks ==
    { <<"#", "#", " ", "[", "1", ".", "0", "]", " ", "-", " ", "2", "0", "2", "4", "-", "1", "3", "-", "1", "5">>,
      <<"#", "#", " ", "[", "2", ".", "0", "]", " ", "-", " ", "2", "0", "2", "3", "-", "0", "2", "-", "2", "9">>,
      <<"#", "#", " ", "[", "3", ".", "0", "]", " ", "-", " ", "2", "0", "2", "4", "-", "0", "2", "-", "2", "9">>,
      <<"#", "#", " ", "[", "4", ".", "0", "]">>,
      <<"#", "#", " ", "1", ".", "0", ".", "0", " ", "(", "2", "0", "2", "4", "-", "0", "0", "-", "1", "0", ")">>,
      <<"B", "o", "d", "y">> }

DateDocs == {Join(b) : b \in SeqsUpTo(DateBlocks, MaxDateBlocks)}

\* the documents with underlined lines: up to MaxUnderBlocks blocks
MaxUnderBlocks == 2

UnderBlocks ==
    { <<"1", ".", "0", ".", "0", "\n", "=", "=", "=", "=", "=">>,
      <<"2", ".", "0", ".", "0", "\n", "=", "=">>,
      <<"3", ".", "0", ".", "0", "\n", "-", " ", "i", "t", "e", "m">>,
      <<"4", ".", "0", ".", "0", "\n", "-", "-", "-">>,
      <<"B", "o", "d", "y">> }

UnderDocs == {Join(b) : b \in SeqsUpTo(UnderBlocks, MaxUnderBlocks)}

\* the documents with headers of the three shapes, short and prefixed
\* versions among them: up to MaxShapeBlocks blocks
MaxShapeBlocks == 2

ShapeBlocks ==
    { <<"#", "#", " ", "v", "1", ".", "0", ".", "0">>,
      <<"#", "#", " ", "V", "1", ".", "0", ".", "0">>,
      <<"#", "#", " ", "1", ".", "0">>,
      <<"#", "#", " ", "1", ".", "1", "0">>,
      <<"#", "#", " ", "1", ".", "0", ".", "0">>,
      <<"#", "#", " ", "[", "1", ".", "0", "]">>,
      <<"1", ".", "0", "\n", "=", "=", "=", "=", "=">>,
      <<"B", "o", "d", "y">> }

ShapeDocs == {Join(b) : b \in SeqsUpTo(ShapeBlocks, MaxShapeBlocks)}

\* the tokens that callers pass to Entry on these documents
ShapeTokens ==
    { <<"1", ".", "0", ".", "0">>,
      <<"1", ".", "0">> }

\* the repository URLs and file names that callers pass
RepoURLs ==
    { <<"h", "t", "t", "p", "s", ":", "/", "/", "g", "i", "t", "h", "u", "b", ".", "c", "o", "m", "/", "o", "/", "r">>,
      <<"h", "t", "t", "p", "s", ":", "/", "/", "g", "i", "t", "h", "u", "b", ".", "c", "o", "m", "/", "o", "/", "r", ".", "g", "i", "t">>,
      <<"h", "t", "t", "p", "s", ":", "/", "/", "g", "i", "t", "l", "a", "b", ".", "c", "o", "m", "/", "o", "/", "r", "/">>,
      <<"h", "t", "t", "p", "s", ":", "/", "/", "g", "i", "t", "l", "a", "b", ".", "c", "o", "m", "/", "o", "/", "r", "/", "t", "r", "e", "e", "/", "x">>,
      <<"h", "t", "t", "p", "s", ":", "/", "/", "g", "i", "t", "h", "u", "b", ".", "c", "o", "m", "/", "o">>,
      <<"h", "t", "t", "p", "s", ":", "/", "/", "g", "i", "t", "h", "u", "b", ".", "c", "o", "m", "/">>,
      <<"h", "t", "t", "p", "s", ":", "/", "/", "g", "i", "t", "l", "a", "b", ".", "c", "o", "m">>,
      <<"h", "t", "t", "p", "s", ":", "/", "/", "b", "i", "t", "b", "u", "c", "k", "e", "t", ".", "o", "r", "g", "/", "o", "/", "r">>,
      <<"h", "t", "t", "p", "s", ":", "/", "/", "b", "i", "t", "b", "u", "c", "k", "e", "t", ".", "o", "r", "g", "/", "o">>,
      <<"g", "i", "t", "h", "u", "b", ".", "c", "o", "m", "/", "o", "/", "r">>,
      <<"h", "t", "t", "p", "s", ":", "/", "/", "g", "i", "t", "h", "u", "b", ".", "c", "o", "m", "/", "o", "/", "r", ".", "g", "i", "t", "/">> }

Filenames ==
    { <<"N", "E", "W", "S">> }

\* what the server does with a request: no answer, a status other than
\* 200, a body that cannot be read, or a body
Responses ==
    {[kind |-> "error", body |-> <<>>],
     [kind |-> "status", body |-> <<>>],
     [kind |-> "unread", body |-> <<>>],
     [kind |-> "ok", body |-> <<>>],
     [kind |-> "ok", body |-> <<"#", "#", " ", "[", "1", ".", "0", "]", "\n", "B", "o", "d", "y">>]}

\* the requests that are followed
MaxRequests == 2

\* the names of the entries of the directories, in the order of os.ReadDir
DirNames ==
    << <<"C", "H", "A", "N", "G", "E", "L", "O", "G", ".", "m", "d">>,
       <<"C", "h", "a", "n", "g", "e", "l", "o", "g", ".", "t", "x", "t">>,
       <<"N", "E", "W", "S">>,
       <<"c", "h", "a", "n", "g", "e", "l", "o", "g", ".", "j", "s", "o", "n">>,
       <<"h", "i", "s", "t", "o", "r", "y", ".", "r", "s", "t">>,
       <<"n", "e", "w", "s", ".", "s", "h">> >>

\* what an entry can be: a directory, or a file of a size at or next to an
\* end of the accepted range, or a file that os.Stat fails on
DirAttrs ==
    {[isDir |-> TRUE, size |-> 0]}
    \cup {[isDir |-> FALSE, size |-> z] :
             z \in {StatFails, MinSize - 1, MinSize, MaxSize, MaxSize + 1}}

\* the directories: up to MaxFiles entries
MaxFiles == 2

Directories ==
    {[name |-> <<"d">>, readable |-> FALSE, entries |-> <<>>]}
    \cup UNION {
        {LET In(n)  == n \in S
             sorted == SelectSeq(DirNames, In)
         IN [name |-> <<"d">>, readable |-> TRUE,
             entries |-> [k \in 1..Len(sorted) |->
                            [name |-> sorted[k], isDir |-> a[sorted[k]].isDir,
                             size |-> a[sorted[k]].size]]] :
           a \in [S -> DirAttrs]} :
        S \in {T \in SUBSET {DirNames[k] : k \in 1..Len(DirNames)} :
                  Cardinality(T) <= MaxFiles}}

\* the goroutines that share one Parser
NumCallers == 2

Callers == 1..NumCallers

\* the documents of the shared Parser: up to MaxConcBlocks blocks
MaxConcBlocks == 2

ConcBlocks ==
    {<<"#", "#", " ", "[", "1", ".", "0", "]">>,
     <<"#", "#", " ", "[", "2", ".", "0", "]">>,
     <<"B", "o", "d", "y">>}

ConcDocs == {Join(bs) : bs \in SeqsUpTo(ConcBlocks, MaxConcBlocks)}

\* the accessor calls of the goroutines
ConcCalls ==
    {[op |-> "Versions", arg |-> <<>>],
     [op |-> "Entry", arg |-> <<<<"1", ".", "0">>>>],
     [op |-> "Entries", arg |-> <<>>]}

BetweenPairs ==
    { <<<<"1", ".", "0">>, <<"2", ".", "0", ".", "0">>>>,
      <<<<>>, <<"1", ".", "0">>>> }

\* ------------------------------------------------------------------------
\* The state
\* ------------------------------------------------------------------------

VARIABLES
    content,    \* Parser.content
    pattern,    \* Parser.pattern
    entries,    \* Parser.entries
    parsed,     \* Parser.parsed
    ctor,       \* the constructor call that made the Parser
    nparse,     \* how many times doParse has run
    ret,        \* the last accessor call and what it returned
    memo,       \* an earlier accessor call and what it returned
    probe,      \* whether earlier calls are remembered in memo
    callers,    \* the goroutines sharing the Parser: where each one is in
                \* its accessor call, and what the call returned
    requests    \* the URLs of the GET requests issued so far

vars ==
    <<content, pattern, entries, parsed, ctor, nparse, ret, memo, probe,
      callers, requests>>

NoCall == [op |-> "none", arg |-> <<>>, val |-> <<>>]

Call(op, arg, val) == [op |-> op, arg |-> arg, val |-> val]

\* Format
Format == {"FormatAuto", "FormatKeepAChangelog", "FormatMarkdown", "FormatUnderline"}

\* Parse(content): the pattern of the new Parser
Parse(s) == detectFormat(s)

\* ParseWithFormat(content, format): the pattern of the new Parser
ParseWithFormat(s, format) ==
    CASE format = "FormatKeepAChangelog" -> "keepAChangelog"
      [] format = "FormatMarkdown"       -> "markdownHeader"
      [] format = "FormatUnderline"      -> "underlineHeader"
      [] OTHER                           -> detectFormat(s)

\* ParseWithPattern(content, pattern): the pattern of the new Parser
ParseWithPattern(s, pat) == pat

\* the constructor calls
Ctor ==
    {[fn |-> "Parse", with |-> "none"]}
    \cup {[fn |-> "ParseWithFormat", with |-> f] : f \in Format}
    \cup {[fn |-> "ParseWithPattern", with |-> "customPattern"]}

\* the pattern of the Parser that the constructor call c makes over s
PatternOf(c, s) ==
    CASE c.fn = "Parse"            -> Parse(s)
      [] c.fn = "ParseWithFormat"  -> ParseWithFormat(s, c.with)
      [] c.fn = "ParseWithPattern" -> ParseWithPattern(s, c.with)

\* a goroutine that has not called the Parser
Idle == [pc |-> "idle", op |-> "none", arg |-> <<>>, i |-> 0, seen |-> <<>>,
         val |-> <<>>]

\* a Parser fresh from one of the constructor calls ctors, over a document
\* of docs
Constructed(docs, ctors) ==
    /\ content \in docs
    /\ ctor \in ctors
    /\ pattern = PatternOf(ctor, content)
    /\ entries = <<>>
    /\ parsed = FALSE
    /\ nparse = 0
    /\ ret = NoCall
    /\ memo = NoCall
    /\ callers = [g \in Callers |-> Idle]
    /\ requests = <<>>

\* any document of MemoDocs, with earlier calls remembered
Init == Constructed(MemoDocs, Ctor) /\ probe = TRUE

\* any document of SegDocs
InitSeg == Constructed(SegDocs, Ctor) /\ probe = FALSE

\* the step keeps memo or, if no call is remembered yet, may remember the
\* call made before this one: memo is always a call earlier than ret
Remember ==
    \E keep \in IF probe /\ memo = NoCall /\ ret # NoCall
                THEN BOOLEAN ELSE {TRUE} :
        memo' = IF keep THEN memo ELSE ret

\* Parser.ensureParsed() as the first statement of an accessor
EnsureParsed ==
    LET ep == ensureParsed(content, pattern, entries, parsed)
    IN /\ entries' = ep[1]
       /\ parsed' = ep[2]
       /\ nparse' = nparse + ep[3]

\* Parser.Versions()
Versions ==
    /\ EnsureParsed
    /\ ret' = Call("Versions", <<>>, VersionsOf(entries'))
    /\ Remember
    /\ UNCHANGED <<content, pattern, ctor, probe, callers, requests>>

\* Parser.Entry(version)
Entry(version) ==
    /\ EnsureParsed
    /\ ret' = Call("Entry", <<version>>, EntryOf(entries', version))
    /\ Remember
    /\ UNCHANGED <<content, pattern, ctor, probe, callers, requests>>

\* Parser.Entries()
Entries ==
    /\ EnsureParsed
    /\ ret' = Call("Entries", <<>>, EntriesOf(entries'))
    /\ Remember
    /\ UNCHANGED <<content, pattern, ctor, probe, callers, requests>>

\* Parser.LineForVersion(version) on a Parser
CallLineForVersion(version) ==
    /\ ret' = Call("LineForVersion", <<version>>, LineForVersion(content, version))
    /\ Remember
    /\ UNCHANGED <<content, pattern, entries, parsed, ctor, nparse, probe, callers,
                 requests>>

\* Between going through ensureParsed first, as the accessors do
CallBetweenSegmenting(oldVersion, newVersion) ==
    /\ EnsureParsed
    /\ ret' = Call("Between", <<oldVersion, newVersion>>,
                   Between(content, oldVersion, newVersion))
    /\ Remember
    /\ UNCHANGED <<content, pattern, ctor, probe, callers, requests>>

\* Parser.Between(oldVersion, newVersion) on a Parser
CallBetween(oldVersion, newVersion) ==
    /\ ret' = Call("Between", <<oldVersion, newVersion>>,
                   Between(content, oldVersion, newVersion))
    /\ Remember
    /\ UNCHANGED <<content, pattern, entries, parsed, ctor, nparse, probe, callers,
                 requests>>

Next ==
    \/ Versions
    \/ \E t \in EntryTokens : Entry(t)
    \/ Entries
    \/ \E t \in LineTokens : CallLineForVersion(t)
    \/ \E p \in BetweenPairs : CallBetween(p[1], p[2])

Spec == Init /\ [][Next]_vars

\* the accessors that segment
NextSeg ==
    \/ Versions
    \/ \E t \in EntryTokens : Entry(t)
    \/ Entries

SpecSeg == InitSeg /\ [][NextSeg]_vars

\* any document of DateDocs
InitDate == Constructed(DateDocs, Ctor) /\ probe = FALSE

SpecDate == InitDate /\ [][NextSeg]_vars

\* any document of UnderDocs
InitUnder == Constructed(UnderDocs, Ctor) /\ probe = FALSE

SpecUnder == InitUnder /\ [][NextSeg]_vars

\* any document of ShapeDocs
InitShape == Constructed(ShapeDocs, Ctor) /\ probe = FALSE

\* the accessors that segment, Entry with the tokens of ShapeTokens
NextShape ==
    \/ Versions
    \/ \E t \in ShapeTokens : Entry(t)
    \/ Entries

SpecShape == InitShape /\ [][NextShape]_vars

\* ------------------------------------------------------------------------
\* Fetching a changelog
\* ------------------------------------------------------------------------

\* RawContentURL(repoURL, filename) called
CallRawContentURL(repoURL, filename) ==
    /\ ret' = Call("RawContentURL", <<repoURL, filename>>,
                   RawContentURL(repoURL, filename))
    /\ Remember
    /\ UNCHANGED <<content, pattern, entries, parsed, ctor, nparse, probe, callers,
                 requests>>

\* FetchAndParse issuing its request before it looks at the error of
\* RawContentURL
FetchAndParseEager(repoURL, filename, resp) ==
    LET raw == RawContentURL(repoURL, filename)
    IN /\ Len(requests) < MaxRequests
       /\ requests' = Append(requests, raw.url)
       /\ ret' = Call("FetchAndParse", <<repoURL, filename>>,
                      [parser |-> FALSE, err |-> raw.err])
       /\ Remember
       /\ UNCHANGED <<content, pattern, entries, parsed, ctor, nparse, probe,
                      callers>>

\* FetchAndParse(ctx, repoURL, filename), the server answering with resp;
\* the Parser it returns takes the place of the one held before
FetchAndParse(repoURL, filename, resp) ==
    LET raw    == RawContentURL(repoURL, filename)
        failed == IF raw.err # NoError THEN raw.err
                  ELSE CASE resp.kind = "error"  -> "transport"
                         [] resp.kind = "status" -> "HTTP status"
                         [] resp.kind = "unread" -> "read"
                         [] OTHER                -> NoError
    IN /\ Len(requests) < MaxRequests
       /\ requests' = IF raw.err # NoError THEN requests
                      ELSE Append(requests, raw.url)
       /\ ret' = Call("FetchAndParse", <<repoURL, filename>>,
                      [parser |-> failed = NoError, err |-> failed])
       /\ Remember
       /\ IF failed = NoError
          THEN /\ content' = resp.body
               /\ ctor' = [fn |-> "Parse", with |-> "none"]
               /\ pattern' = Parse(resp.body)
               /\ entries' = <<>>
               /\ parsed' = FALSE
               /\ nparse' = 0
          ELSE UNCHANGED <<content, pattern, entries, parsed, ctor, nparse>>
       /\ UNCHANGED <<probe, callers>>

\* no changelog fetched yet: the Parser of the empty document
InitFetch ==
    Constructed({<<>>}, {[fn |-> "Parse", with |-> "none"]}) /\ probe = FALSE

NextFetch ==
    \E u \in RepoURLs, f \in Filenames :
        \/ CallRawContentURL(u, f)
        \/ \E resp \in Responses : FetchAndParse(u, f, resp)

SpecFetch == InitFetch /\ [][NextFetch]_vars

\* ------------------------------------------------------------------------
\* Finding a changelog
\* ------------------------------------------------------------------------

\* FindChangelog(directory) called
CallFindChangelog(dir) ==
    /\ ret' = Call("FindChangelog", <<dir>>, FindChangelog(dir))
    /\ Remember
    /\ UNCHANGED <<content, pattern, entries, parsed, ctor, nparse, probe, callers,
                 requests>>

\* no Parser made yet: the Parser of the empty document
InitFind ==
    Constructed({<<>>}, {[fn |-> "Parse", with |-> "none"]}) /\ probe = FALSE

\* the first call is FindChangelog
NextFind == \E dir \in Directories : ret = NoCall /\ CallFindChangelog(dir)

SpecFind == InitFind /\ [][NextFind]_vars

\* Parse(content) over any document of LocDocs
InitLoc ==
    Constructed(LocDocs, {[fn |-> "Parse", with |-> "none"]}) /\ probe = FALSE

\* the first call on the Parser is LineForVersion
NextLoc == \E t \in LocTokens : ret = NoCall /\ CallLineForVersion(t)

SpecLoc == InitLoc /\ [][NextLoc]_vars

\* Parse(content) over any document of RangeDocs
InitRange ==
    Constructed(RangeDocs, {[fn |-> "Parse", with |-> "none"]}) /\ probe = FALSE

\* the first call on the Parser is Between
NextRange ==
    \E old \in RangeTokens, new \in RangeTokens :
        ret = NoCall /\ CallBetween(old, new)

SpecRange == InitRange /\ [][NextRange]_vars

\* ------------------------------------------------------------------------
\* One Parser shared by goroutines: the accessors statement by statement
\* ------------------------------------------------------------------------

\* the header matches that doParse loops over
HeaderMatches == FindAllStringSubmatchIndex(pattern, content)

\* what the accessor call c returns when it ranges over the entries ents
ResultOf(c, ents) ==
    CASE c.op = "Versions" -> VersionsOf(ents)
      [] c.op = "Entry"    -> EntryOf(ents, c.arg[1])
      [] c.op = "Entries"  -> EntriesOf(ents)

\* goroutine g moves to its next statement
Goes(g, next) ==
    /\ callers' = [callers EXCEPT ![g] = next]
    /\ UNCHANGED <<content, pattern, ctor, ret, memo, probe, requests>>

\* goroutine g calls Versions, Entry or Entries
GoCall(g, c) ==
    /\ callers[g].pc = "idle"
    /\ Goes(g, [callers[g] EXCEPT !.pc = "test", !.op = c.op, !.arg = c.arg])
    /\ UNCHANGED <<entries, parsed, nparse>>

\* ensureParsed: if p.parsed { return }
GoTest(g) ==
    /\ callers[g].pc = "test"
    /\ Goes(g, [callers[g] EXCEPT
                   !.pc = IF parsed THEN "range" ELSE "mark"])
    /\ UNCHANGED <<entries, parsed, nparse>>

\* ensureParsed: p.parsed = true, and doParse up to its loop
GoMark(g) ==
    /\ callers[g].pc = "mark"
    /\ parsed' = TRUE
    /\ nparse' = nparse + 1
    /\ Goes(g, IF content = <<>> \/ HeaderMatches = <<>>
               THEN [callers[g] EXCEPT !.pc = "range"]
               ELSE [callers[g] EXCEPT !.pc = "load", !.i = 1])
    /\ UNCHANGED entries

\* doParse: the read of p.entries in p.entries = append(p.entries, ...)
GoLoad(g) ==
    /\ callers[g].pc = "load"
    /\ Goes(g, [callers[g] EXCEPT !.pc = "store", !.seen = entries])
    /\ UNCHANGED <<entries, parsed, nparse>>

\* doParse: the write of p.entries in p.entries = append(p.entries, ...)
GoStore(g) ==
    /\ callers[g].pc = "store"
    /\ entries' = Append(callers[g].seen,
                         EntryOfMatch(content, HeaderMatches, callers[g].i))
    /\ Goes(g, IF callers[g].i < Len(HeaderMatches)
               THEN [callers[g] EXCEPT !.pc = "load", !.i = @ + 1,
                                       !.seen = <<>>]
               ELSE [callers[g] EXCEPT !.pc = "range", !.i = 0,
                                       !.seen = <<>>])
    /\ UNCHANGED <<parsed, nparse>>

\* the accessor ranges over p.entries and returns
GoReturn(g) ==
    /\ callers[g].pc = "range"
    /\ Goes(g, [callers[g] EXCEPT !.pc = "done",
                                  !.val = ResultOf(callers[g], entries)])
    /\ UNCHANGED <<entries, parsed, nparse>>

\* Parse(content) over any document of ConcDocs, shared by the goroutines
InitConc ==
    Constructed(ConcDocs, {[fn |-> "Parse", with |-> "none"]}) /\ probe = FALSE

NextConc ==
    \E g \in Callers :
        \/ \E c \in ConcCalls : GoCall(g, c)
        \/ GoTest(g)
        \/ GoMark(g)
        \/ GoLoad(g)
        \/ GoStore(g)
        \/ GoReturn(g)

SpecConc == InitConc /\ [][NextConc]_vars

\* ------------------------------------------------------------------------
\* Segmentation: properties
\* ------------------------------------------------------------------------

\* the header matches of the Parser's pattern in its document
Matches == FindAllStringSubmatchIndex(pattern, content)

\* the group-1 capture of a match
Capture1(m) == IF m[3] < 0 THEN <<>> ELSE Slice(content, m[3], m[4])

\* C1: Versions() is the sequence of the group-1 captures of the
\* non-overlapping header matches, one per match and in document order
\* (matches lie one after the other in the text), duplicates kept; with no
\* match Versions() and Entries() are empty.
C1_VersionsInDocumentOrder ==
    /\ \A i \in 1..(Len(Matches) - 1) : Matches[i][2] <= Matches[i + 1][1]
    /\ ret.op = "Versions" =>
          /\ Len(ret.val) = Len(Matches)
          /\ \A i \in 1..Len(Matches) : ret.val[i] = Capture1(Matches[i])
    /\ ret.op = "Entries" /\ Matches = <<>> => DOMAIN ret.val = {}

\* Versions() returned a token twice with another token in between, which
\* no sorted sequence holds
C1_Witness ==
    /\ ret.op = "Versions"
    /\ Len(ret.val) = 3
    /\ ret.val[1] = ret.val[3]
    /\ ret.val[1] # ret.val[2]

\* Versions() and Entries() returned nothing for a document without a
\* header
C1_WitnessEmpty ==
    /\ ret.op = "Entries"
    /\ content # <<>>
    /\ Matches = <<>>

\* c is raw without its leading and trailing white space, nothing else
\* removed or changed
IsTrimOf(c, raw) ==
    /\ c # <<>> => c[1] \notin UnicodeSpace /\ c[Len(c)] \notin UnicodeSpace
    /\ \E a \in 0..(Len(raw) - Len(c)) :
          /\ Slice(raw, a, a + Len(c)) = c
          /\ \A k \in 1..Len(raw) :
                (k <= a \/ k > a + Len(c)) => raw[k] \in UnicodeSpace

\* the text between the end of header match i and the start of the next
\* header match, or the end of the document
SpanAfter(i) ==
    Slice(content, Matches[i][2],
          IF i < Len(Matches) THEN Matches[i + 1][1] ELSE Len(content))

\* C2: the content of record i is the text from the end of header match i
\* to the start of header match i+1 (the end of the document for the last),
\* trimmed of leading and trailing white space only; the spans are disjoint
\* and in document order, and none starts before the first header ends.
C2_ContentIsTrimmedSpan ==
    parsed =>
        /\ Len(entries) = Len(Matches)
        /\ \A i \in 1..Len(entries) :
              /\ IsTrimOf(entries[i].content, SpanAfter(i))
              /\ Matches[1][2] <= Matches[i][2]
              /\ i < Len(entries) =>
                    /\ Matches[i][2] <= Matches[i + 1][1]
                    /\ Matches[i + 1][1] < Matches[i + 1][2]

\* segmentation of a document with a header that the next header follows
\* at once (empty content) and a last header whose content was trimmed
C2_Witness ==
    /\ parsed
    /\ Len(entries) = 2
    /\ entries[1].content = <<>>
    /\ entries[2].content # <<>>
    /\ entries[2].content # SpanAfter(2)

\* the Parser was made with automatic detection
AutoDetected ==
    \/ ctor.fn = "Parse"
    \/ ctor.fn = "ParseWithFormat" /\ ctor.with = "FormatAuto"

\* how many headers of the shape pat the document holds
CountOf(pat) == Len(FindAllStringSubmatchIndex(pat, content))

\* C3: with automatic detection the pattern is Keep-a-Changelog if that
\* shape matches anywhere, else Underline if that shape matches anywhere,
\* else Markdown-header, whatever the numbers of headers of each shape.
C3_DetectionPriority ==
    AutoDetected =>
        pattern = IF CountOf("keepAChangelog") > 0 THEN "keepAChangelog"
                  ELSE IF CountOf("underlineHeader") > 0 THEN "underlineHeader"
                  ELSE "markdownHeader"

\* one underline header among more markdown headers selected Underline
C3_Witness ==
    /\ AutoDetected
    /\ pattern = "underlineHeader"
    /\ CountOf("underlineHeader") = 1
    /\ CountOf("markdownHeader") >= 2

\* ------------------------------------------------------------------------
\* Accessors: properties
\* ------------------------------------------------------------------------

\* the indices of the records whose version is the token t
RecordsOf(t) == {i \in 1..Len(entries) : entries[i].version = t}

First(S) == CHOOSE i \in S : \A j \in S : i <= j

Last(S) == CHOOSE i \in S : \A j \in S : j <= i

\* the date and content of record i
EntryAt(i) == [date |-> entries[i].date, content |-> entries[i].content]

\* the Entry that Entry(t) returned, and the one that Entries() holds for t
Returned(e) == [date |-> e.date, content |-> e.content]

\* C8: Entry(t) returns the first record of token t and found = false
\* exactly when there is none; Entries() maps each token of Versions() to
\* its last record, its keys being the tokens of Versions(); the two agree
\* on a token declared once and differ on a token declared twice with
\* different date or content.
C8_FirstWinsLastWins ==
    /\ ret.op = "Entry" =>
          LET hits == RecordsOf(ret.arg[1])
          IN /\ ret.val.found = (hits # {})
             /\ hits # {} => Returned(ret.val) = EntryAt(First(hits))
    /\ ret.op = "Entries" =>
          /\ DOMAIN ret.val = {entries[i].version : i \in 1..Len(entries)}
          /\ \A t \in DOMAIN ret.val :
                Returned(ret.val[t]) = EntryAt(Last(RecordsOf(t)))
    /\ \A a \in {ret, memo}, b \in {ret, memo} :
          a.op = "Entry" /\ b.op = "Entries" =>
             LET t    == a.arg[1]
                 hits == RecordsOf(t)
             IN /\ Cardinality(hits) = 1 =>
                      Returned(a.val) = Returned(b.val[t])
                /\ Cardinality(hits) = 2
                   /\ EntryAt(First(hits)) # EntryAt(Last(hits)) =>
                      Returned(a.val) # Returned(b.val[t])

\* Entries() and then Entry(t) were called for a token declared twice, and
\* returned different entries
C8_Witness ==
    /\ memo.op = "Entries"
    /\ ret.op = "Entry"
    /\ Cardinality(RecordsOf(ret.arg[1])) = 2
    /\ Returned(ret.val) # Returned(memo.val[ret.arg[1]])

\* the accessors that call ensureParsed
Segmenting == {"Versions", "Entry", "Entries"}

\* C9: in a sequence of accessor calls on one Parser segmentation runs at
\* most once, on the first call of Versions, Entry or Entries; once stored
\* the record sequence never changes; and an accessor called again with the
\* same arguments returns an equal result.
C9_SegmentedOnce ==
    /\ [](/\ nparse = (IF parsed THEN 1 ELSE 0)
          /\ ret.op \in Segmenting => parsed
          /\ memo.op = ret.op /\ memo.arg = ret.arg => memo.val = ret.val)
    /\ [][/\ parsed => entries' = entries /\ parsed'
          /\ ret'.op \notin Segmenting => nparse' = nparse]_vars

\* an accessor that segments was called a second time with the same
\* arguments, on a Parser with records
C9_Witness ==
    /\ memo.op \in Segmenting
    /\ memo.op = ret.op
    /\ memo.arg = ret.arg
    /\ Len(entries) = 2
    /\ nparse = 1

\* ------------------------------------------------------------------------
\* The range extractor: properties
\* ------------------------------------------------------------------------

\* the lines of the document
Lines == Split(content)

\* the bytes that Between removes from the end of a slice
TrailingSpace == {" ", "\t", "\n"}

\* text is joined without trailing white space, nothing else removed
IsRightTrimOf(text, joined) ==
    /\ Len(text) <= Len(joined)
    /\ SubSeq(joined, 1, Len(text)) = text
    /\ \A k \in (Len(text) + 1)..Len(joined) : joined[k] \in TrailingSpace
    /\ text # <<>> => text[Len(text)] \notin TrailingSpace

\* lines [a, b) of the document with the line breaks between them
LinesJoined(a, b) ==
    IF a >= b THEN <<>>
    ELSE LET nl    == NewlinesFrom(content, 0)
             start == IF a = 0 THEN 0 ELSE nl[a] + 1
             end   == IF b > Len(nl) THEN Len(content) ELSE nl[b]
         IN Slice(content, start, end)

\* needle occurs somewhere in text
Holds(text, needle) == \E o \in 0..Len(text) : OccursAt(text, needle, o)

\* the document with the releases 3.0, 2.0 and 1.0, newest first
Descending ==
    Join(<<Join(<<Header3, Body3>>), Join(<<Header2, Body2>>),
           Join(<<Header1, Body1>>)>>)

\* C4: Between(old, new) follows the decision table on the two located
\* lines: both found and old < new gives lines [old, end); both found and
\* old >= new gives [new, old), empty but found when old = new; only old
\* found gives not-found for line 0 and [0, old) otherwise; only new found
\* gives [new, end); neither found gives not-found.  The lines keep their
\* line breaks and lose trailing white space only.  In the descending
\* document Between(1.0, 3.0) holds the bodies of 3.0 and 2.0, not of 1.0.
C4_BetweenDecisionTable ==
    ret.op = "Between" =>
        LET old == LineForVersion(content, ret.arg[1])
            new == LineForVersion(content, ret.arg[2])
            n   == Len(Lines)
            is(a, b) == /\ ret.val.found
                        /\ IsRightTrimOf(ret.val.text, LinesJoined(a, b))
            none == ~ret.val.found /\ ret.val.text = <<>>
        IN /\ old >= 0 /\ new >= 0 /\ old < new  => is(old, n)
           /\ old >= 0 /\ new >= 0 /\ old >= new => is(new, old)
           /\ old >= 0 /\ new >= 0 /\ old = new  => ret.val.text = <<>>
           /\ old >= 0 /\ new < 0 /\ old = 0     => none
           /\ old >= 0 /\ new < 0 /\ old > 0     => is(0, old)
           /\ old < 0 /\ new >= 0                => is(new, n)
           /\ old < 0 /\ new < 0                 => none
           /\ content = Descending /\ old = 4 /\ new = 0 =>
                 /\ Holds(ret.val.text, Body3)
                 /\ Holds(ret.val.text, Body2)
                 /\ ~Holds(ret.val.text, Body1)

\* Between(1.0, 3.0) was called on the descending document
C4_Witness ==
    /\ ret.op = "Between"
    /\ content = Descending
    /\ LineForVersion(content, ret.arg[1]) = 4
    /\ LineForVersion(content, ret.arg[2]) = 0
    /\ ret.val.found
    /\ Holds(ret.val.text, Body2)

\* ------------------------------------------------------------------------
\* The version locator: properties
\* ------------------------------------------------------------------------

\* the occurrence of v at offset o of the line is boundary-valid: no "."
\* and no word character but v or V before it, and no ".", "-" or word
\* character after it
ValidAt(line, v, o) ==
    /\ OccursAt(line, v, o)
    /\ o > 0 => /\ line[o] # "."
                /\ line[o] \in WordChar => line[o] \in {"v", "V"}
    /\ o + Len(v) < Len(line) =>
          line[o + Len(v) + 1] \notin WordChar \cup {".", "-"}

\* some occurrence of v in the line, at any offset, is boundary-valid
ContainsAnywhere(line, v) == \E o \in 0..Len(line) : ValidAt(line, v, o)

\* the line holds v followed at once by ".."
RangeRef(line, v) ==
    \E o \in 0..Len(line) : OccursAt(line, v \o <<".", ".">>, o)

\* the smallest member of a set of line indices, -1 for the empty set
FirstOrNone(S) == IF S = {} THEN -1 ELSE First(S)

\* the line indices of the document
LineIndex == 0..(Len(Lines) - 1)

\* C5: LineForVersion treats a line as containing the token exactly when
\* some occurrence of the stripped token in it, at any position, is
\* boundary-valid: of the lines that are no range reference and have a
\* header shape, it returns the first with such an occurrence.
C5_ContainsAtAnyPosition ==
    ret.op = "LineForVersion" /\ ret.arg[1] # <<>> =>
        LET v == StripPrefix(ret.arg[1])
        IN ret.val = FirstOrNone({i \in LineIndex :
                         /\ ContainsAnywhere(Lines[i + 1], v)
                         /\ ~rangeRe(Lines[i + 1], v)
                         /\ LooksLikeHeader(Lines, i, v)})

\* the header shapes 5a to 5f of line i for the token v
ShapeA(line) ==
    HasPrefix(line, <<"#">>) \/ HasPrefix(line, <<"!">>)
    \/ HasPrefix(line, <<"=", "=">>)

ShapeB(line, v) ==
    \E pre \in {<<>>, <<"v">>, <<"V">>} :
        LET k == Len(pre) + Len(v)
        IN /\ HasPrefix(line, pre \o v)
           /\ \/ At(line, k) \in SpaceChar
              \/ At(line, k) = ":" /\ At(line, k + 1) \in SpaceChar

ShapeC(line, v) == HasPrefix(line, <<"[">> \o v \o <<"]">>)

ShapeD(line, v) ==
    /\ At(line, 0) \in {"+", "*", "-"}
    /\ LET a == RunEnd(line, 1, SpaceChar)
           b == RunEnd(line, a + 7, SpaceChar)
       IN /\ a > 1
          /\ \/ OccursAt(line, v, a)
             \/ /\ OccursAtFold(line, <<"v", "e", "r", "s", "i", "o", "n">>, a)
                /\ b > a + 7
                /\ OccursAt(line, v, b)

ShapeE(line) == IsDateShape(line, 0)

ShapeF(lines, i) ==
    /\ i + 1 < Len(lines)
    /\ LET next == lines[i + 2]
           u    == RunEnd(next, 0, {"=", "-", "+"})
       IN u >= 3 /\ \A k \in (u + 1)..Len(next) : next[k] \in SpaceChar

\* line i qualifies for the token v
Qualifies(i, v) ==
    /\ ContainsAnywhere(Lines[i + 1], v)
    /\ ~RangeRef(Lines[i + 1], v)
    /\ \/ ShapeA(Lines[i + 1])
       \/ ShapeB(Lines[i + 1], v)
       \/ ShapeC(Lines[i + 1], v)
       \/ ShapeD(Lines[i + 1], v)
       \/ ShapeE(Lines[i + 1])
       \/ ShapeF(Lines, i)

\* C6: LineForVersion(token) returns the smallest line index whose line has
\* a boundary-valid occurrence of the token, is no range reference and has
\* one of the header shapes 5a to 5f; -1 exactly when no line qualifies or
\* the token is empty; the result is -1 or an index of a line.
C6_FirstQualifyingLine ==
    ret.op = "LineForVersion" =>
        /\ ret.val \in {-1} \cup LineIndex
        /\ ret.val =
              IF ret.arg[1] = <<>> THEN -1
              ELSE FirstOrNone({i \in LineIndex :
                                   Qualifies(i, StripPrefix(ret.arg[1]))})

\* line i is one that the scan of LineForVersion returns when it gets there
Located(i, v) ==
    /\ containsVersion(Lines[i + 1], v)
    /\ ~RangeRef(Lines[i + 1], v)
    /\ LooksLikeHeader(Lines, i, v)

\* C7: LineForVersion never returns a line in which the token is followed
\* at once by "..", header shape or not, and the scan goes on after such a
\* line: the first header line of the token is returned whatever range
\* references precede it.
C7_RangeLinesSkipped ==
    ret.op = "LineForVersion" /\ ret.arg[1] # <<>> =>
        LET v == StripPrefix(ret.arg[1])
        IN /\ ret.val >= 0 => ~RangeRef(Lines[ret.val + 1], v)
           /\ \A k \in LineIndex :
                 Located(k, v) /\ (\A j \in 0..(k - 1) : ~Located(j, v))
                    => ret.val = k

\* a range reference with a header shape was skipped and the header after
\* it returned
C7_Witness ==
    /\ ret.op = "LineForVersion"
    /\ ret.val > 0
    /\ \E j \in 0..(ret.val - 1) :
          /\ RangeRef(Lines[j + 1], StripPrefix(ret.arg[1]))
          /\ containsVersion(Lines[j + 1], StripPrefix(ret.arg[1]))
          /\ ShapeA(Lines[j + 1])

\* ------------------------------------------------------------------------
\* The shared Parser: properties
\* ------------------------------------------------------------------------

\* the entries of one complete segmentation of the document
Segmented == doParse(content, pattern, <<>>)

\* segmentation ran at most once
SegmentedAtMostOnce == nparse <= 1

\* the entries are the first records of one segmentation, none twice
AppendedOnce ==
    /\ Len(entries) <= Len(Segmented)
    /\ entries = SubSeq(Segmented, 1, Len(entries))

\* every call that returned, returned what the whole segmentation gives
ReturnedComplete ==
    \A g \in Callers :
        callers[g].pc = "done" =>
            callers[g].val = ResultOf(callers[g], Segmented)

\* C10: with one Parser shared by callers of Versions, Entry and Entries,
\* in every interleaving segmentation is executed at most once, no record
\* is appended twice, and no accessor returns a result computed from an
\* empty or partly built record sequence.
C10_SharedMemoizationSafe ==
    SegmentedAtMostOnce /\ AppendedOnce /\ ReturnedComplete

\* ------------------------------------------------------------------------
\* Dates of headers: properties
\* ------------------------------------------------------------------------

\* the text the date group of the match m captured, empty when the pattern
\* has no date group or the group took no part in the match
DateText(m) ==
    IF Len(m) >= 6 /\ m[5] >= 0 THEN Slice(content, m[5], m[6]) ELSE <<>>

\* the digits d, of the shape YYYY-MM-DD, name a day of the calendar
IsCalendarDate(d) ==
    LET num(a, b) == 10 * DigitVal(d[a]) + DigitVal(d[b])
        y == 100 * num(1, 2) + num(3, 4)
        m == num(6, 7)
    IN /\ m \in 1..12
       /\ num(9, 10) \in 1..DaysIn(y, m)

\* YYYY-MM-DD digits at offset o of s that name no day of the calendar
BadDateAt(s, o) ==
    o >= 0 /\ IsDateShape(s, o) /\ ~IsCalendarDate(Slice(s, o, o + 10))

\* a date of the calendar
SomeValidDate == <<"2", "0", "2", "4", "-", "0", "1", "-", "1", "5">>

\* s with every YYYY-MM-DD that names no day replaced by a valid date
WithValidDates(s) ==
    [k \in 1..Len(s) |->
        IF \E o \in (k - 10)..(k - 1) : BadDateAt(s, o)
        THEN SomeValidDate[k - (CHOOSE o \in (k - 10)..(k - 1) : BadDateAt(s, o))]
        ELSE s[k]]

\* C11: a header whose date group is absent, or holds digits of the shape
\* YYYY-MM-DD that name no day of the calendar, still gives its record, with
\* its version and content and no date; and the records are as many, in the
\* same order and with the same versions and contents as those of the
\* document with valid dates in the place of the invalid ones.
C11_BadDateIsNoError ==
    parsed =>
        LET valid == doParse(WithValidDates(content), pattern, <<>>)
        IN /\ Len(entries) = Len(Matches)
           /\ Len(valid) = Len(entries)
           /\ \A i \in 1..Len(entries) :
                 LET d == DateText(Matches[i])
                 IN /\ entries[i].version = Capture1(Matches[i])
                    /\ IsTrimOf(entries[i].content, SpanAfter(i))
                    /\ d = <<>> \/ ~IsCalendarDate(d) =>
                          entries[i].date = NoDate
                    /\ d # <<>> /\ IsCalendarDate(d) =>
                          entries[i].date = d /\ valid[i].date = d
                    /\ valid[i].version = entries[i].version
                    /\ valid[i].content = WithValidDates(entries[i].content)

\* a header with month 13 gave a record without date, next to a record
\* with a date
C11_Witness ==
    /\ parsed
    /\ Len(entries) = 2
    /\ \E i \in 1..2 :
          /\ DateText(Matches[i]) # <<>>
          /\ ~IsCalendarDate(DateText(Matches[i]))
          /\ entries[i].date = NoDate
          /\ entries[3 - i].date # NoDate

\* ------------------------------------------------------------------------
\* The locator and the range extractor on a Parser: properties
\* ------------------------------------------------------------------------

\* the operations that read the raw document
RawReaders == {"LineForVersion", "Between"}

\* what the call c returns, from the document alone
FromDocument(c) ==
    IF c.op = "LineForVersion" THEN LineForVersion(content, c.arg[1])
    ELSE Between(content, c.arg[1], c.arg[2])

\* C12: a call of LineForVersion or Between neither segments nor changes a
\* field of the Parser, and what it returns is determined by the document
\* and the arguments alone: the same under every constructor and matcher,
\* and the same before and after segmentation has run.
C12_RawReadersFrame ==
    /\ [](/\ ret.op \in RawReaders => ret.val = FromDocument(ret)
          /\ memo.op \in RawReaders => memo.val = FromDocument(memo)
          /\ \A op \in RawReaders :
                memo.op = op /\ ret.op = op /\ memo.arg = ret.arg =>
                   memo.val = ret.val)
    /\ [][ret'.op \in RawReaders =>
             UNCHANGED <<content, pattern, entries, parsed, nparse>>]_vars

\* LineForVersion found its line on a Parser with a custom pattern, after
\* an accessor had segmented the document
C12_Witness ==
    /\ memo.op \in Segmenting
    /\ ret.op = "LineForVersion"
    /\ ret.val >= 0
    /\ ctor.fn = "ParseWithPattern"
    /\ parsed
    /\ entries # <<>>

\* ------------------------------------------------------------------------
\* The prefix of the token: properties
\* ------------------------------------------------------------------------

\* the token less one leading v or V, if it has one
StripOne(t) ==
    IF t # <<>> /\ t[1] \in {"v", "V"} THEN SubSeq(t, 2, Len(t)) ELSE t

\* C13: LineForVersion searches for the token less one leading v or V, and
\* no more than one: a token that starts with two prefix letters is
\* searched with only the first removed, and v + t, V + t and t give the
\* same line when t starts with neither letter.
C13_StripsOnePrefix ==
    ret.op = "LineForVersion" /\ ret.arg[1] # <<>> =>
        /\ ret.val = LineScan(Lines, StripOne(ret.arg[1]), 0)
        /\ LET t == StripOne(ret.arg[1])
           IN t # <<>> /\ t[1] \notin {"v", "V"} =>
                 ret.val = LineForVersion(content, t)

\* ------------------------------------------------------------------------
\* The Underline matcher: properties
\* ------------------------------------------------------------------------

\* the offsets at which a line of the document starts
LineStarts == {o \in 0..Len(content) : LineStart(content, o)}

\* the end of the line that starts at offset o
LineEnd(o) == IndexFrom(content, o, "\n")

\* the line at offset o is a version token and the line after it consists
\* solely of three or more = or - characters
UnderlinedAt(o) ==
    LET e == LineEnd(o)
        u == RunEnd(content, e + 1, {"=", "-"})
    IN /\ e < Len(content)
       /\ VersionEnd(content, o) = e
       /\ u - (e + 1) >= 3
       /\ u = Len(content) \/ At(content, u) = "\n"

\* C14: under the Underline matcher a line is a header, and gives a record,
\* only when the line after it consists solely of three or more = or -
\* characters; a shorter run, or a line that goes on with other text, makes
\* no record and does not make detection select Underline.
C14_UnderlineIsWholeLine ==
    /\ pattern = "underlineHeader" /\ parsed =>
          /\ Len(entries) = Cardinality({o \in LineStarts : UnderlinedAt(o)})
          /\ \A i \in 1..Len(entries) : UnderlinedAt(Matches[i][1])
    /\ AutoDetected /\ pattern = "underlineHeader" =>
          \E o \in LineStarts : UnderlinedAt(o)

\* ------------------------------------------------------------------------
\* The Markdown-header matcher and the prefix of the version: properties
\* ------------------------------------------------------------------------

\* the version as the header of the match m writes it: the text between the
\* # marks with their white space and the end of the version
WrittenVersion(m) ==
    Slice(content,
          RunEnd(content, RunEnd(content, m[1], {"#"}), SpaceChar), m[4])

\* the document holds the line l
HasLine(l) == \E k \in 1..Len(Lines) : Lines[k] = l

\* C15: under the Markdown-header matcher a version written with a leading
\* v or V gives a record whose token is the version without that letter, so
\* Entry("1.0.0") is found for the header "## v1.0.0" and for "## V1.0.0".
C15_PrefixNotInToken ==
    pattern = "markdownHeader" =>
        /\ parsed =>
              \A i \in 1..Len(entries) :
                 entries[i].version = StripOne(WrittenVersion(Matches[i]))
        /\ /\ ret.op = "Entry"
           /\ ret.arg[1] = <<"1", ".", "0", ".", "0">>
           /\ \/ HasLine(<<"#", "#", " ", "v", "1", ".", "0", ".", "0">>)
              \/ HasLine(<<"#", "#", " ", "V", "1", ".", "0", ".", "0">>)
           => ret.val.found

\* ------------------------------------------------------------------------
\* The length of the version: properties
\* ------------------------------------------------------------------------

\* the number of bytes of t after its first ".", -1 if it has none
AfterFirstDot(t) ==
    LET dots == {k \in 1..Len(t) : t[k] = "."}
    IN IF dots = {} THEN -1 ELSE Len(t) - First(dots)

\* the versions of the records
Tokens == {entries[i].version : i \in 1..Len(entries)}

\* C17: the Markdown-header and Underline matchers accept only a version
\* with two or more characters after its first ".", the Keep-a-Changelog
\* matcher a version of any length: "## 1.0" and "1.0" over an underline
\* give no record under the first two, "## [1.0]" gives a record 1.0 under
\* Keep-a-Changelog, "## 1.10" and "## 1.0.0" give records under
\* Markdown-header.
C17_MinimumVersionLength ==
    parsed =>
        /\ pattern \in {"markdownHeader", "underlineHeader"} =>
              /\ \A t \in Tokens : AfterFirstDot(t) >= 2
              /\ <<"1", ".", "0">> \notin Tokens
        /\ pattern = "keepAChangelog"
           /\ HasLine(<<"#", "#", " ", "[", "1", ".", "0", "]">>) =>
              <<"1", ".", "0">> \in Tokens
        /\ pattern = "markdownHeader" =>
              /\ HasLine(<<"#", "#", " ", "1", ".", "1", "0">>) =>
                    <<"1", ".", "1", "0">> \in Tokens
              /\ HasLine(<<"#", "#", " ", "1", ".", "0", ".", "0">>) =>
                    <<"1", ".", "0", ".", "0">> \in Tokens

\* the Markdown-header matcher segmented a document with the headers
\* "## 1.0" and "## 1.10" into the one record 1.10
C17_Witness ==
    /\ parsed
    /\ pattern = "markdownHeader"
    /\ HasLine(<<"#", "#", " ", "1", ".", "0">>)
    /\ HasLine(<<"#", "#", " ", "1", ".", "1", "0">>)
    /\ Tokens = {<<"1", ".", "1", "0">>}

\* the Underline matcher, asked for by the caller, segmented a document
\* with "1.0" over an underline into no record
C17_WitnessUnderline ==
    /\ parsed
    /\ pattern = "underlineHeader"
    /\ HasLine(<<"1", ".", "0">>)
    /\ HasLine(<<"=", "=", "=", "=", "=">>)
    /\ entries = <<>>

\* ------------------------------------------------------------------------
\* Header shape 5b: properties
\* ------------------------------------------------------------------------

\* C18: a line that contains the token at a valid boundary, is no range
\* reference and begins with an optional v or V, the token, an optional ":"
\* and a white space character is a header line of LineForVersion: the
\* first such line, or a header line before it, is returned.
C18_PrefixedLineIsHeader ==
    ret.op = "LineForVersion" /\ ret.arg[1] # <<>> =>
        LET v == StripPrefix(ret.arg[1])
        IN \A k \in LineIndex :
              /\ containsVersion(Lines[k + 1], v)
              /\ ~RangeRef(Lines[k + 1], v)
              /\ ShapeB(Lines[k + 1], v)
              => ret.val \in 0..k

\* ------------------------------------------------------------------------
\* The raw content URL: properties
\* ------------------------------------------------------------------------

\* the pieces of p between its "/" bytes
RECURSIVE SegmentsOf(_)
SegmentsOf(p) ==
    LET a == IndexFrom(p, 0, "/")
    IN IF a = Len(p) THEN <<p>>
       ELSE <<Slice(p, 0, a)>> \o SegmentsOf(Slice(p, a + 1, Len(p)))

\* the repository URL without a trailing ".git" and a trailing slash
Repository(u) == TrimSuffix(TrimSuffix(u, <<".", "g", "i", "t">>), <<"/">>)

\* the host of the repository URL u and the segments of its path
HostOf(u) == UrlParse(Repository(u)).Host

PathOf(u) == SegmentsOf(TrimPrefix(UrlParse(Repository(u)).Path, <<"/">>))

\* what the claim wants of RawContentURL(u, f): the URL, or one of the two
\* errors
Wanted(u, f) ==
    LET segs == PathOf(u)
        at(base, mid) ==
            [url |-> base \o segs[1] \o <<"/">> \o segs[2] \o mid \o f,
             err |-> NoError]
    IN IF Len(segs) < 2 THEN [url |-> <<>>, err |-> ErrOwnerRepo]
       ELSE IF HostOf(u) = <<"g", "i", "t", "h", "u", "b", ".", "c", "o", "m">>
       THEN at(GitHubRaw, <<"/", "H", "E", "A", "D", "/">>)
       ELSE IF HostOf(u) = <<"g", "i", "t", "l", "a", "b", ".", "c", "o", "m">>
       THEN at(GitLab, <<"/", "-", "/", "r", "a", "w", "/", "H", "E", "A", "D", "/">>)
       ELSE [url |-> <<>>, err |-> ErrHost]

CandidatesOf(dir, n) ==
    {e \in {dir.entries[k] : k \in 1..Len(dir.entries)} :
        /\ ~e.isDir
        /\ \E x \in changelogExtensions :
              ToLower(e.name) = changelogFilenames[n] \o x}

\* the size of the entry e is in the preferred range
Preferred(e) == e.size >= MinSize /\ e.size <= MaxSize

\* C19: FindChangelog returns at most one path, of a candidate: a file, no
\* directory, whose lower-cased stem is a known stem and whose extension is
\* allowed, the stems taken in their order.  The size range is a preference
\* among several candidates of one stem: a single candidate is returned
\* whatever its size, a path is returned whenever some stem has a
\* candidate, and the empty path without error only when none has.  (Taken
\* for directories whose files os.Stat succeeds on.)
C19_SizeIsPreference ==
    /\ ret.op = "FindChangelog"
    /\ ret.arg[1].readable
    /\ \A k \in 1..Len(ret.arg[1].entries) :
          ret.arg[1].entries[k].size # StatFails
    =>
        LET dir   == ret.arg[1]
            stems == {n \in 1..Len(changelogFilenames) :
                         CandidatesOf(dir, n) # {}}
            first == CandidatesOf(dir, First(stems))
        IN /\ ret.val.err = NoError
           /\ ret.val.path # <<>> =>
                 \E n \in stems : \E e \in CandidatesOf(dir, n) :
                    ret.val.path = PathJoin(dir.name, e.name)
           /\ stems # {} /\ Cardinality(first) = 1 =>
                 \E e \in first : ret.val.path = PathJoin(dir.name, e.name)
           /\ stems # {} /\ (\E e \in first : Preferred(e)) =>
                 \E e \in first :
                    Preferred(e) /\ ret.val.path = PathJoin(dir.name, e.name)
           /\ (ret.val.path = <<>>) <=> (stems = {})

====
